---- MODULE Spec2Model ----
(***************************************************************************)
(* Model of scripts/create_sqs_queue.py: a one-shot command line tool that *)
(* creates an SQS queue, optionally with a dead-letter queue, and emits    *)
(* the queue URLs and ARNs as a JSON document.                             *)
(*                                                                         *)
(* Python str values that come from outside the program (command line     *)
(* arguments, values returned by the remote service) are sequences of     *)
(* one-character strings, so that truthiness, concatenation and JSON      *)
(* escaping act on their characters.  Text the program formats (str(int), *)
(* json.dumps) is a TLA+ string.                                           *)
(***************************************************************************)
EXTENDS Integers, Sequences, FiniteSets, TLC

----------------------------------------------------------------------------
(* Bounds of the model *)

\* queue names given on the command line have at most this many characters
MaxNameLen == 1
\* queue URLs returned by the service have at most this many characters
MaxUrlLen == 1
\* queue ARNs returned by the service have at most this many characters
MaxArnLen == 1
\* --max-receive-count ranges over 0..MaxCount and the default
MaxCount == 1

(* Program constants: the argparse defaults *)
DefaultMaxReceiveCount == 5
DefaultVisibilityTimeout == 180
DefaultMessageRetention == 345600

----------------------------------------------------------------------------
(* Values *)

\* Python's None; distinct from every sequence of one-character strings
None == <<"None">>

RECURSIVE SeqsUpTo(_, _)
\* all sequences over alphabet of length at most n
SeqsUpTo(alphabet, n) ==
    IF n = 0 THEN {<<>>}
    ELSE LET shorter == SeqsUpTo(alphabet, n - 1)
         IN  shorter \cup {Append(s, c) : s \in shorter, c \in alphabet}

Names    == SeqsUpTo({"q"}, MaxNameLen)
DlqNames == SeqsUpTo({"d"}, MaxNameLen)
Urls     == SeqsUpTo({"u"}, MaxUrlLen)
Arns     == SeqsUpTo({"a", "\""}, MaxArnLen)
Counts   == (0..MaxCount) \cup {DefaultMaxReceiveCount}
Timeouts == {<<DefaultVisibilityTimeout, DefaultMessageRetention>>, <<0, 60>>}
Outs     == {"-", "out.json"}

\* the file object open() returns
File == <<"file">>

\* what the file at args.out holds before the run
Stale == "stale"

\* truth value of an Optional[str]: None and the empty string are falsy
Truthy(v) == v # None /\ v # <<>>

\* Python's `a or b`
Or(a, b) == IF Truthy(a) THEN a ELSE b

\* the text of the suffix in f"{args.name}-dlq"
DlqSuffix == <<"-", "d", "l", "q">>

----------------------------------------------------------------------------
(* Formatting *)

Digit(d) == CASE d = 0 -> "0" [] d = 1 -> "1" [] d = 2 -> "2" [] d = 3 -> "3"
              [] d = 4 -> "4" [] d = 5 -> "5" [] d = 6 -> "6" [] d = 7 -> "7"
              [] d = 8 -> "8" [] d = 9 -> "9"

RECURSIVE Digits(_)
Digits(n) == IF n < 10 THEN Digit(n) ELSE Digits(n \div 10) \o Digit(n % 10)

\* str(n) of an int
Str(n) == IF n < 0 THEN "-" \o Digits(0 - n) ELSE Digits(n)

\* json.dumps of one character inside a string
JsonChar(c) == CASE c = "\"" -> "\\\""
                 [] c = "\\" -> "\\\\"
                 [] c = "\n" -> "\\n"
                 [] OTHER    -> c

RECURSIVE JsonChars(_)
JsonChars(s) == IF s = <<>> THEN "" ELSE JsonChar(Head(s)) \o JsonChars(Tail(s))

\* json.dumps of a str
JsonString(s) == "\"" \o JsonChars(s) \o "\""

\* json.dumps({"deadLetterTargetArn": arn, "maxReceiveCount": count},
\*            separators=(",", ":"))
RedrivePolicyJson(arn, count) ==
    "{\"deadLetterTargetArn\":" \o JsonString(arn)
        \o ",\"maxReceiveCount\":" \o Str(count) \o "}"

RECURSIVE JsonItems(_)
\* the items of a dict of str values under indent=2, in insertion order
JsonItems(items) ==
    IF items = <<>> THEN ""
    ELSE "\n  \"" \o Head(items)[1] \o "\": " \o JsonString(Head(items)[2])
           \o (IF Len(items) > 1 THEN "," ELSE "\n")
           \o JsonItems(Tail(items))

\* json.dumps(payload, indent=2); payload is the sequence of <<key, value>>
JsonIndent2(items) == IF items = <<>> THEN "{}" ELSE "{" \o JsonItems(items) \o "}"

----------------------------------------------------------------------------
(* State *)

VARIABLES
    args,          \* the parsed command line
    pc,            \* position in main()
    dlq_name,      \* local of main()
    dlq_url,       \* local of main()
    dlq_arn,       \* local of main()
    attributes,    \* local of main()
    queue_url,     \* local of main()
    queue_arn,     \* local of main()
    payload,       \* local of main(): sequence of <<key, value>>
    out_f,         \* local of main(): None or the file object
    exc,           \* the exception in flight, or "none"
    calls,         \* the remote calls issued so far, in order
    remoteQueues,  \* the queue names that exist in the service
    stdout,        \* the text written to standard output
    fileText,      \* the content of the file at args.out
    fd,            \* the state of the output file handle
    opens,         \* number of open() calls on the output path
    badClose,      \* a close() was issued on a handle that was not open
    exit_code      \* the process's exit status; -1 while it is running

vars == <<args, pc, dlq_name, dlq_url, dlq_arn, attributes, queue_url,
          queue_arn, payload, out_f, exc, calls, remoteQueues, stdout,
          fileText, fd, opens, badClose, exit_code>>

locals == <<dlq_name, dlq_url, dlq_arn, attributes, queue_url, queue_arn,
            payload, out_f>>
outputs == <<stdout, fileText, fd, opens, badClose>>

\* parser.parse_args(): every combination of options
Args == [name : Names, with_dlq : BOOLEAN, dlq_name : DlqNames \cup {None},
         max_receive_count : Counts, timeouts : Timeouts, out : Outs]

visibility_timeout_seconds == args.timeouts[1]
message_retention_seconds  == args.timeouts[2]

Init ==
    /\ args \in Args
    /\ pc = "with_dlq"
    /\ dlq_name = None
    /\ dlq_url = None
    /\ dlq_arn = None
    /\ attributes = [x \in {} |-> ""]
    /\ queue_url = None
    /\ queue_arn = None
    /\ payload = <<>>
    /\ out_f = None
    /\ exc = "none"
    /\ calls = <<>>
    /\ remoteQueues = {}
    /\ stdout = ""
    /\ fileText = Stale
    /\ fd = "unopened"
    /\ opens = 0
    /\ badClose = FALSE
    /\ exit_code = -1

----------------------------------------------------------------------------
(* The remote service *)

CreateQueueCall(name, attrs) ==
    [op |-> "create_queue", QueueName |-> name, Attributes |-> attrs]

GetQueueAttributesCall(url) ==
    [op |-> "get_queue_attributes", QueueUrl |-> url,
     AttributeNames |-> <<"QueueArn">>]

\* the attributes both queues are created with
BaseAttributes ==
    [VisibilityTimeout      |-> Str(visibility_timeout_seconds),
     MessageRetentionPeriod |-> Str(message_retention_seconds)]

\* an exception leaves main(): the interpreter exits with status 1
Raise(kind) ==
    /\ exc' = kind
    /\ pc' = "raised"
    /\ exit_code' = 1

\* mutant of DlqName: the --dlq-name option is ignored
DlqName_IgnoresOption == args.name \o DlqSuffix

\* args.dlq_name or f"{args.name}-dlq"
DlqName == Or(args.dlq_name, args.name \o DlqSuffix)

\* a create_queue call that raises may or may not have created the queue
CreateQueueFails(name) ==
    /\ \E created \in BOOLEAN :
          remoteQueues' = IF created THEN remoteQueues \cup {name} ELSE remoteQueues
    /\ Raise("ClientError")

----------------------------------------------------------------------------
(* main(), one action per statement that touches the outside world *)

\* if args.with_dlq: ... sqs.create_queue(QueueName=dlq_name, ...)["QueueUrl"]
CreateDlqQueue ==
    /\ pc = "with_dlq"
    /\ args.with_dlq
    /\ dlq_name' = DlqName
    /\ calls' = Append(calls, CreateQueueCall(DlqName, BaseAttributes))
    /\ \/ \E url \in Urls :
             /\ remoteQueues' = remoteQueues \cup {DlqName}
             /\ dlq_url' = url
             /\ pc' = "dlq_arn"
             /\ UNCHANGED <<exc, exit_code>>
       \/ /\ CreateQueueFails(DlqName)
          /\ UNCHANGED dlq_url
    /\ UNCHANGED <<args, dlq_arn, attributes, queue_url, queue_arn, payload,
                   out_f, outputs>>

\* if args.with_dlq: with the flag off
SkipDlq ==
    /\ pc = "with_dlq"
    /\ ~args.with_dlq
    /\ pc' = "attributes"
    /\ UNCHANGED <<args, locals, exc, calls, remoteQueues, outputs, exit_code>>

\* dlq_arn = _queue_arn(sqs, dlq_url)
DlqQueueArn ==
    /\ pc = "dlq_arn"
    /\ calls' = Append(calls, GetQueueAttributesCall(dlq_url))
    /\ \/ \E arn \in Arns :
             /\ dlq_arn' = arn
             /\ pc' = "attributes"
             /\ UNCHANGED <<exc, exit_code>>
       \/ /\ Raise("ClientError")
          /\ UNCHANGED dlq_arn
    /\ UNCHANGED <<args, dlq_name, dlq_url, attributes, queue_url, queue_arn,
                   payload, out_f, remoteQueues, outputs>>

\* attributes = {...}; if dlq_arn: attributes["RedrivePolicy"] = json.dumps(...)
BuildAttributes ==
    /\ pc = "attributes"
    /\ attributes' =
          IF Truthy(dlq_arn)
          THEN [VisibilityTimeout      |-> Str(visibility_timeout_seconds),
                MessageRetentionPeriod |-> Str(message_retention_seconds),
                RedrivePolicy          |->
                    RedrivePolicyJson(dlq_arn, args.max_receive_count)]
          ELSE BaseAttributes
    /\ pc' = "create_queue"
    /\ UNCHANGED <<args, dlq_name, dlq_url, dlq_arn, queue_url, queue_arn,
                   payload, out_f, exc, calls, remoteQueues, outputs, exit_code>>

\* mutant of CreateMainQueue: a failed call is issued a second time
CreateMainQueue_Retries ==
    /\ pc = "create_queue"
    /\ \/ /\ calls' = Append(calls, CreateQueueCall(args.name, attributes))
          /\ \E url \in Urls :
                /\ remoteQueues' = remoteQueues \cup {args.name}
                /\ queue_url' = url
                /\ pc' = "queue_arn"
                /\ UNCHANGED <<exc, exit_code>>
       \/ /\ calls' = calls \o << CreateQueueCall(args.name, attributes),
                                  CreateQueueCall(args.name, attributes) >>
          /\ CreateQueueFails(args.name)
          /\ UNCHANGED queue_url
    /\ UNCHANGED <<args, dlq_name, dlq_url, dlq_arn, attributes, queue_arn,
                   payload, out_f, outputs>>

\* mutant of CreateMainQueue: a failure deletes the dead-letter queue again
CreateMainQueue_RollsBack ==
    /\ pc = "create_queue"
    /\ \/ /\ calls' = Append(calls, CreateQueueCall(args.name, attributes))
          /\ \E url \in Urls :
                /\ remoteQueues' = remoteQueues \cup {args.name}
                /\ queue_url' = url
                /\ pc' = "queue_arn"
                /\ UNCHANGED <<exc, exit_code>>
       \/ /\ calls' = calls \o << CreateQueueCall(args.name, attributes),
                                  [op |-> "delete_queue", QueueUrl |-> dlq_url] >>
          /\ remoteQueues' = remoteQueues \ {dlq_name}
          /\ Raise("ClientError")
          /\ UNCHANGED queue_url
    /\ UNCHANGED <<args, dlq_name, dlq_url, dlq_arn, attributes, queue_arn,
                   payload, out_f, outputs>>

\* queue_url = sqs.create_queue(QueueName=args.name, Attributes=attributes)["QueueUrl"]
CreateMainQueue ==
    /\ pc = "create_queue"
    /\ calls' = Append(calls, CreateQueueCall(args.name, attributes))
    /\ \/ \E url \in Urls :
             /\ remoteQueues' = remoteQueues \cup {args.name}
             /\ queue_url' = url
             /\ pc' = "queue_arn"
             /\ UNCHANGED <<exc, exit_code>>
       \/ /\ CreateQueueFails(args.name)
          /\ UNCHANGED queue_url
    /\ UNCHANGED <<args, dlq_name, dlq_url, dlq_arn, attributes, queue_arn,
                   payload, out_f, outputs>>

\* mutant of MainQueueArn: the lookup is made on the dead-letter queue's URL
MainQueueArn_WrongUrl ==
    /\ pc = "queue_arn"
    /\ calls' = Append(calls, GetQueueAttributesCall(dlq_url))
    /\ \/ \E arn \in Arns :
             /\ queue_arn' = arn
             /\ pc' = "payload"
             /\ UNCHANGED <<exc, exit_code>>
       \/ /\ Raise("ClientError")
          /\ UNCHANGED queue_arn
    /\ UNCHANGED <<args, dlq_name, dlq_url, dlq_arn, attributes, queue_url,
                   payload, out_f, remoteQueues, outputs>>

\* queue_arn = _queue_arn(sqs, queue_url)
MainQueueArn ==
    /\ pc = "queue_arn"
    /\ calls' = Append(calls, GetQueueAttributesCall(queue_url))
    /\ \/ \E arn \in Arns :
             /\ queue_arn' = arn
             /\ pc' = "payload"
             /\ UNCHANGED <<exc, exit_code>>
       \/ /\ Raise("ClientError")
          /\ UNCHANGED queue_arn
    /\ UNCHANGED <<args, dlq_name, dlq_url, dlq_arn, attributes, queue_url,
                   payload, out_f, remoteQueues, outputs>>

\* payload = {...}; if dlq_url: ...; if dlq_arn: ...
BuildPayload ==
    /\ pc = "payload"
    /\ payload' =
          <<   <<"existing_queue_url", queue_url>>,
               <<"existing_queue_arn", queue_arn>>   >>
          \o (IF Truthy(dlq_url) THEN << <<"existing_dlq_url", dlq_url>> >> ELSE <<>>)
          \o (IF Truthy(dlq_arn) THEN << <<"existing_dlq_arn", dlq_arn>> >> ELSE <<>>)
    /\ pc' = "output"
    /\ UNCHANGED <<args, dlq_name, dlq_url, dlq_arn, attributes, queue_url,
                   queue_arn, out_f, exc, calls, remoteQueues, outputs, exit_code>>

\* if args.out == "-": print(json.dumps(payload, indent=2))
\* print() writes its argument followed by end="\n"
PrintStdout ==
    /\ pc = "output"
    /\ args.out = "-"
    /\ \/ /\ stdout' = stdout \o JsonIndent2(payload) \o "\n"
          /\ UNCHANGED exc
       \/ /\ exc' = "OSError"
          /\ UNCHANGED stdout
    /\ pc' = "finally"
    /\ UNCHANGED <<args, locals, calls, remoteQueues, fileText, fd, opens,
                   badClose, exit_code>>

\* else: out_f = open(args.out, "w", encoding="utf-8")
OpenFile ==
    /\ pc = "output"
    /\ args.out # "-"
    /\ opens' = opens + 1
    /\ \/ /\ out_f' = File
          /\ fd' = "open"
          /\ fileText' = ""
          /\ pc' = "write"
          /\ UNCHANGED exc
       \/ /\ exc' = "OSError"
          /\ pc' = "finally"
          /\ UNCHANGED <<out_f, fd, fileText>>
    /\ UNCHANGED <<args, dlq_name, dlq_url, dlq_arn, attributes, queue_url,
                   queue_arn, payload, calls, remoteQueues, stdout, badClose,
                   exit_code>>

\* mutant of WriteFile: the trailing newline is left out
WriteFile_NoNewline ==
    /\ pc = "write"
    /\ \/ /\ fileText' = fileText \o JsonIndent2(payload)
          /\ UNCHANGED exc
       \/ /\ exc' = "OSError"
          /\ UNCHANGED fileText
    /\ pc' = "finally"
    /\ UNCHANGED <<args, locals, calls, remoteQueues, stdout, fd, opens,
                   badClose, exit_code>>

\* out_f.write(json.dumps(payload, indent=2) + "\n")
WriteFile ==
    /\ pc = "write"
    /\ \/ /\ fileText' = fileText \o JsonIndent2(payload) \o "\n"
          /\ UNCHANGED exc
       \/ /\ exc' = "OSError"
          /\ UNCHANGED fileText
    /\ pc' = "finally"
    /\ UNCHANGED <<args, locals, calls, remoteQueues, stdout, fd, opens,
                   badClose, exit_code>>

\* mutant of Finally: the handle is closed only when no exception is in flight
Finally_LeaksOnError ==
    /\ pc = "finally"
    /\ IF out_f # None /\ exc = "none"
       THEN /\ fd' = "closed"
            /\ badClose' = (badClose \/ fd # "open")
            /\ \/ exc' = exc
               \/ exc' = "OSError"
       ELSE UNCHANGED <<fd, badClose, exc>>
    /\ IF exc' # "none"
       THEN pc' = "raised" /\ exit_code' = 1
       ELSE pc' = "return" /\ UNCHANGED exit_code
    /\ UNCHANGED <<args, locals, calls, remoteQueues, stdout, fileText, opens>>

\* mutant of Finally: a failed output step deletes the main queue again
Finally_RollsBack ==
    /\ pc = "finally"
    /\ IF out_f # None
       THEN /\ fd' = "closed"
            /\ badClose' = (badClose \/ fd # "open")
            /\ \/ exc' = exc
               \/ exc' = "OSError"
       ELSE UNCHANGED <<fd, badClose, exc>>
    /\ IF exc' # "none"
       THEN /\ pc' = "raised"
            /\ exit_code' = 1
            /\ calls' = Append(calls, [op |-> "delete_queue", QueueUrl |-> queue_url])
            /\ remoteQueues' = remoteQueues \ {args.name}
       ELSE /\ pc' = "return"
            /\ UNCHANGED <<exit_code, calls, remoteQueues>>
    /\ UNCHANGED <<args, locals, stdout, fileText, opens>>

\* finally: if out_f is not None: out_f.close()
\* close() releases the handle even when it raises; an exception in flight,
\* or one close() raises, then leaves main()
Finally ==
    /\ pc = "finally"
    /\ IF out_f # None
       THEN /\ fd' = "closed"
            /\ badClose' = (badClose \/ fd # "open")
            /\ \/ exc' = exc
               \/ exc' = "OSError"
       ELSE UNCHANGED <<fd, badClose, exc>>
    /\ IF exc' # "none"
       THEN pc' = "raised" /\ exit_code' = 1
       ELSE pc' = "return" /\ UNCHANGED exit_code
    /\ UNCHANGED <<args, locals, calls, remoteQueues, stdout, fileText, opens>>

\* return 0, then raise SystemExit(main())
Return ==
    /\ pc = "return"
    /\ pc' = "exited"
    /\ exit_code' = 0
    /\ UNCHANGED <<args, locals, exc, calls, remoteQueues, outputs>>

Next ==
    \/ CreateDlqQueue
    \/ SkipDlq
    \/ DlqQueueArn
    \/ BuildAttributes
    \/ CreateMainQueue
    \/ MainQueueArn
    \/ BuildPayload
    \/ PrintStdout
    \/ OpenFile
    \/ WriteFile
    \/ Finally
    \/ Return

Spec == Init /\ [][Next]_vars

----------------------------------------------------------------------------
(* Vocabulary of the properties *)

\* the run has ended with exit status 0
Succeeded == exit_code = 0

\* the run has ended on a remote call that raised
RemoteFailed == pc = "raised" /\ exc = "ClientError"

\* the run has ended on an exception of the output step
OutputFailed == pc = "raised" /\ exc = "OSError"

\* the number of remote calls main() issues when none fails
ExpectedCalls == IF args.with_dlq THEN 4 ELSE 2

\* the position of the main queue's create-call among the remote calls
MainCreateIndex == IF args.with_dlq THEN 3 ELSE 1

MainCreateIssued == Len(calls) >= MainCreateIndex

\* the attribute set sent with the main queue's create-call
MainCreateAttributes == calls[MainCreateIndex].Attributes

\* what a remote call acts on: a queue name or a queue URL
Target(call) == IF call.op = "create_queue" THEN call.QueueName ELSE call.QueueUrl

\* the remote calls issued so far as <<operation, target>>
CallTrace == [i \in DOMAIN calls |-> <<calls[i].op, Target(calls[i])>>]

\* the sequence of remote calls of a run in which none fails
FullTrace ==
    (IF args.with_dlq
     THEN << <<"create_queue", dlq_name>>, <<"get_queue_attributes", dlq_url>> >>
     ELSE <<>>)
    \o << <<"create_queue", args.name>>, <<"get_queue_attributes", queue_url>> >>

\* the remote calls of this run that have returned a value
Returned ==
    {v \in {"dlq_url", "dlq_arn", "queue_url", "queue_arn"} :
        CASE v = "dlq_url"   -> dlq_url # None
          [] v = "dlq_arn"   -> dlq_arn # None
          [] v = "queue_url" -> queue_url # None
          [] v = "queue_arn" -> queue_arn # None}

\* nothing has reached standard output or the output file
NothingWritten ==
    /\ stdout = ""
    /\ opens = 0
    /\ fd = "unopened"
    /\ fileText = Stale

\* the queues this run asked the service to create
RequestedQueues == {args.name} \cup (IF args.with_dlq THEN {dlq_name} ELSE {})

PayloadKeys == {payload[i][1] : i \in DOMAIN payload}

----------------------------------------------------------------------------
(* Properties *)

\* C1: whenever the main queue's create-call has been issued, its attribute
\* set contains a RedrivePolicy entry if and only if --with-dlq was given,
\* whatever ARN the service returned for the dead-letter queue.
C1_RedriveIffWithDlq ==
    MainCreateIssued =>
        (("RedrivePolicy" \in DOMAIN MainCreateAttributes) <=> args.with_dlq)

\* C2: in every successful run the output document has exactly the keys
\* existing_queue_url and existing_queue_arn without --with-dlq, and exactly
\* those two and existing_dlq_url and existing_dlq_arn with --with-dlq,
\* whatever URLs and ARNs the service returned.
C2_KeysIffWithDlq ==
    Succeeded =>
        PayloadKeys =
            {"existing_queue_url", "existing_queue_arn"}
            \cup (IF args.with_dlq
                  THEN {"existing_dlq_url", "existing_dlq_arn"}
                  ELSE {})

\* C3: a successful run has issued exactly create-queue(dead-letter name),
\* get-attributes(dead-letter URL), create-queue(main name),
\* get-attributes(main URL) in this order with --with-dlq, and exactly the
\* last two without it; and nothing reaches the output before the last of
\* these calls has returned.
C3_CallSequence ==
    /\ Succeeded => CallTrace = FullTrace
    /\ ~NothingWritten => CallTrace = FullTrace /\ queue_arn # None

C3_Witness ==
    /\ Succeeded
    /\ args.with_dlq
    /\ Len(calls) = 4
    /\ dlq_name = <<"d">>
    /\ stdout # ""

\* C4: with --with-dlq, when the main queue's create-call fails after the
\* dead-letter queue was created, the process exits non-zero, the
\* dead-letter queue still exists in the service, no call other than
\* create-queue and get-attributes was issued, and no output is written.
C4_DlqLeftBehind ==
    (args.with_dlq /\ RemoteFailed /\ dlq_arn # None /\ queue_url = None) =>
        /\ exit_code > 0
        /\ dlq_name \in remoteQueues
        /\ \A i \in DOMAIN calls :
              calls[i].op \in {"create_queue", "get_queue_attributes"}
        /\ NothingWritten

C4_Witness ==
    /\ args.with_dlq
    /\ RemoteFailed
    /\ dlq_arn # None
    /\ queue_url = None
    /\ Len(calls) = 3
    /\ dlq_name \in remoteQueues

\* C5: every remote call is issued at most once; and when a remote call
\* fails the run has ended with a non-zero exit, the failed call is the last
\* call issued and was issued once, and nothing was written to standard
\* output or to the output file, which was not opened.
C5_FailFast ==
    /\ Len(calls) <= Cardinality(Returned) + 1
    /\ Len(calls) <= ExpectedCalls
    /\ exc = "ClientError" =>
          /\ pc = "raised"
          /\ exit_code > 0
          /\ Len(calls) = Cardinality(Returned) + 1
          /\ NothingWritten

C5_Witness ==
    /\ RemoteFailed
    /\ args.with_dlq
    /\ Len(calls) = 2
    /\ dlq_url # None
    /\ dlq_arn = None

\* C6: in every run with --with-dlq that issues the main queue's
\* create-call, the attribute set sent holds a RedrivePolicy whose text is
\* {"deadLetterTargetArn":<the ARN looked up for the dead-letter queue as a
\* JSON string>,"maxReceiveCount":<--max-receive-count>}.
C6_RedrivePolicyExact ==
    (args.with_dlq /\ MainCreateIssued) =>
        /\ "RedrivePolicy" \in DOMAIN MainCreateAttributes
        /\ MainCreateAttributes.RedrivePolicy =
              "{\"deadLetterTargetArn\":" \o JsonString(dlq_arn)
                 \o ",\"maxReceiveCount\":" \o Str(args.max_receive_count) \o "}"

\* C7 as stated: with --with-dlq the dead-letter queue's create-call names
\* <name>-dlq when --dlq-name is omitted and the --dlq-name value whenever
\* one is supplied.
C7_DlqNameAsSupplied ==
    (args.with_dlq /\ Len(calls) >= 1) =>
        calls[1].QueueName =
            IF args.dlq_name = None THEN args.name \o <<"-", "d", "l", "q">>
            ELSE args.dlq_name

\* C7 amended: with --with-dlq the dead-letter queue's create-call names the
\* --dlq-name value when a non-empty one is supplied, and <name>-dlq when
\* --dlq-name is omitted or empty.
C7_DlqNameNonEmpty ==
    (args.with_dlq /\ Len(calls) >= 1) =>
        /\ calls[1].op = "create_queue"
        /\ calls[1].QueueName =
              IF args.dlq_name = None \/ Len(args.dlq_name) = 0
              THEN args.name \o <<"-", "d", "l", "q">>
              ELSE args.dlq_name

C7_Witness ==
    /\ args.with_dlq
    /\ Len(calls) >= 1
    /\ args.dlq_name = <<>>
    /\ args.name = <<"q">>
    /\ calls[1].QueueName = <<"q", "-", "d", "l", "q">>

\* C8: the output file handle is open only between open() and the finally
\* block, and only after every remote call has returned; no handle is open
\* once main() is left, by return or by exception; and close() is never
\* issued on a handle that was not opened.
C8_HandleScoped ==
    /\ fd = "open" =>
          /\ pc \in {"write", "finally"}
          /\ out_f = File
          /\ CallTrace = FullTrace
          /\ queue_arn # None
    /\ pc \in {"return", "exited", "raised"} => fd # "open"
    /\ fd = "closed" => opens = 1
    /\ ~badClose

C8_Witness ==
    /\ pc = "raised"
    /\ exc = "OSError"
    /\ fd = "closed"
    /\ fileText = ""

\* C9: when the output step on a file path fails after the remote calls
\* succeeded, the run ends with a non-zero exit, every queue created in the
\* run still exists, and the remote calls issued are exactly those issued
\* before the output step began.
C9_NoRollbackOnOutputFailure ==
    /\ pc \in {"output", "write", "finally", "return", "exited"} =>
          CallTrace = FullTrace
    /\ OutputFailed =>
          /\ exit_code > 0
          /\ RequestedQueues \subseteq remoteQueues
          /\ CallTrace = FullTrace

C9_Witness ==
    /\ OutputFailed
    /\ args.out # "-"
    /\ args.with_dlq
    /\ opens = 1
    /\ remoteQueues = {args.name, dlq_name}

\* C10 as stated: a successful run with --out set to a path leaves the JSON
\* text followed by one newline in the file, and a successful run with
\* --out - emits the JSON text to standard output with no newline after it.
C10_NewlineOnlyInFile ==
    Succeeded =>
        IF args.out = "-"
        THEN stdout = JsonIndent2(payload)
        ELSE fileText = JsonIndent2(payload) \o "\n"

\* C10 amended: a successful run emits the indented JSON text followed by
\* exactly one newline to either destination: to a file the program appends
\* the newline to the text it writes, to standard output print() supplies
\* it; the other destination is left untouched.
C10_OneNewlineEitherWay ==
    Succeeded =>
        IF args.out = "-"
        THEN /\ stdout = JsonIndent2(payload) \o "\n"
             /\ fileText = Stale
             /\ opens = 0
        ELSE /\ fileText = JsonIndent2(payload) \o "\n"
             /\ stdout = ""

C10_Witness ==
    /\ Succeeded
    /\ ~args.with_dlq
    /\ queue_url = <<"u">>
    /\ queue_arn = <<"\"">>
    /\ args.out # "-"
    /\ fileText = "{\n  \"existing_queue_url\": \"u\",\n  \"existing_queue_arn\": \"\\\"\"\n}\n"

====
